---- MODULE Spec2Model ----
(***************************************************************************)
(* A model of crinkled::dubious: the Dubious<T> wrapper, its composition   *)
(* operations, the Validate capability and the forwarded binary operators. *)
(*                                                                         *)
(* Every library operation is an operator that returns a record            *)
(*   [out |-> result, vcalls |-> <<...>>, fcalls |-> <<...>>]              *)
(* where vcalls lists, in order, the values on which the contained type's  *)
(* Validate::validate was invoked and fcalls lists, in order, the          *)
(* arguments with which the caller-supplied function was invoked.          *)
(***************************************************************************)
EXTENDS Integers, Sequences, FiniteSets, TLC

\* ---------------------------------------------------------------- bounds
\* Largest magnitude of a finite f64 the model enumerates.
MaxFinite == 2
\* Longest pipeline of composition operations after a construct.
MaxSteps == 2
\* Cap on the validation counter.
MaxCount == 3

\* ------------------------------------------------------------------- f64
Fin(n) == [k |-> "fin", n |-> n]
PInf == [k |-> "inf", n |-> 1]
NInf == [k |-> "inf", n |-> -1]
NaN == [k |-> "nan", n |-> 0]

F64 == {Fin(n) : n \in (-MaxFinite)..MaxFinite} \cup {PInf, NInf, NaN}

\* IEEE-754 subtraction on the enumerated values.
f64_sub(a, b) ==
    IF a.k = "nan" \/ b.k = "nan" THEN NaN
    ELSE IF a.k = "inf" THEN (IF b.k = "inf" /\ b.n = a.n THEN NaN ELSE a)
    ELSE IF b.k = "inf" THEN [k |-> "inf", n |-> -b.n]
    ELSE Fin(a.n - b.n)

\* IEEE-754 ==: NaN is equal to nothing, itself included.
f64_eq(a, b) == a.k # "nan" /\ b.k # "nan" /\ a = b

\* IEEE-754 (a >= 0.0): false for NaN.
f64_ge0(a) == a.k # "nan" /\ a.n >= 0

f64_abs(a) == IF a.k = "nan" THEN a ELSE [k |-> a.k, n |-> IF a.n < 0 THEN -a.n ELSE a.n]

\* ------------------------------------------- Result, Option, tuples (std)
Ok(x) == [ok |-> x]
Err(e) == [err |-> e]
Some(x) == [some |-> x]
None == [none |-> TRUE]
Tuple(x, y) == [t0 |-> x, t1 |-> y]

is_ok(r) == "ok" \in DOMAIN r
is_some(o) == "some" \in DOMAIN o

\* Result::ok and Result::err
Result_ok(r) == IF is_ok(r) THEN Some(r.ok) ELSE None
Result_err(r) == IF is_ok(r) THEN None ELSE Some(r.err)

\* Option::zip
Option_zip(a, b) == IF is_some(a) /\ is_some(b) THEN Some(Tuple(a.some, b.some)) ELSE None

\* ----------------------------------------------------------- value types
\* struct Positive(f64): an f64 that is >= 0.0 once validated.
Positive(f) == [ty |-> "Positive", f |-> f]
\* A value type whose validation normalises: the success value is the
\* absolute value of the input.
Magnitude(f) == [ty |-> "Magnitude", f |-> f]

TVals == {Positive(f) : f \in F64} \cup {Magnitude(f) : f \in F64}

\* impl Validate for Positive
Positive_validate(self) == IF f64_ge0(self.f) THEN Ok(self) ELSE Err("()")

\* impl Validate for Magnitude (Ok = Self, but not the input value)
Magnitude_validate(self) ==
    IF self.f.k = "nan" THEN Err("NotANumber") ELSE Ok(Magnitude(f64_abs(self.f)))

\* <T as Validate>::validate, dispatched on the value's type.
T_validate(self) ==
    IF self.ty = "Positive" THEN Positive_validate(self) ELSE Magnitude_validate(self)

\* impl Sub for T: T(self.0 - rhs.0)
T_sub(self, rhs) == [ty |-> self.ty, f |-> f64_sub(self.f, rhs.f)]

\* #[derive(PartialEq)] on the value type, on tuples and on Dubious.
plain_eq(x, y) == x.ty = y.ty /\ f64_eq(x.f, y.f)

T_eq(x, y) ==
    IF DOMAIN x # DOMAIN y THEN FALSE
    ELSE IF "ty" \in DOMAIN x THEN plain_eq(x, y)
    ELSE IF "t0" \in DOMAIN x THEN plain_eq(x.t0, y.t0) /\ plain_eq(x.t1, y.t1)
    ELSE plain_eq(x.dub, y.dub)

\* ------------------------------------------------ caller-supplied closures
\* pub struct Dubious<T>(T)
Dubious(x) == [dub |-> x]

\* Calls a caller-supplied closure f on x.
Call(f, x) ==
    CASE f.fn = "sub" -> T_sub(x, f.c)                     \* |p| p - c
      [] f.fn = "then_sub" -> Dubious(T_sub(x, f.c))       \* |p| Dubious::new(p - c)
      [] f.fn = "pair_sub" -> T_sub(x.t0, x.t1)            \* |(a, b)| a - b
      [] f.fn = "fst" -> x.t0                              \* |(a, _)| a
      [] f.fn = "snd" -> x.t1                              \* |(_, b)| b
      [] f.fn = "accept" -> Ok(x)                          \* |p| Ok(p)
      [] f.fn = "reject" -> Err("rejected")                \* |_| Err("rejected")
      [] f.fn = "finite" -> IF x.f.k = "fin" THEN Ok(x) ELSE Err("not finite")

R(out, vcalls, fcalls) == [out |-> out, vcalls |-> vcalls, fcalls |-> fcalls]

\* --------------------------------------------------------------- Dubious
new(value) == R(Dubious(value), <<>>, <<>>)

\* validate_with that falls back on the contained type's own validation.
validate_with_builtin(self, f) == R(T_validate(self.dub), <<self.dub>>, <<>>)

validate_with(self, f) == R(Call(f, self.dub), <<>>, <<self.dub>>)

\* map that validates the contained value before applying f.
map_validating(self, f) == R(Dubious(Call(f, self.dub)), <<self.dub>>, <<self.dub>>)

map(self, f) == R(Dubious(Call(f, self.dub)), <<>>, <<self.dub>>)

then(self, f) == R(Call(f, self.dub), <<>>, <<self.dub>>)

zip(self, other) == R(Dubious(Tuple(self.dub, other.dub)), <<>>, <<>>)

\* zip_with that pairs the operands the wrong way round.
zip_with_swapped(self, other, f) ==
    R(Dubious(Call(f, Tuple(other.dub, self.dub))), <<>>, <<Tuple(other.dub, self.dub)>>)

zip_with(self, other, f) ==
    R(Dubious(Call(f, Tuple(self.dub, other.dub))), <<>>, <<Tuple(self.dub, other.dub)>>)

flatten(self) == R(self.dub, <<>>, <<>>)

\* invert that drops a contained value failing validation.
invert_filtering(self) ==
    R(IF is_some(self.dub) /\ is_ok(T_validate(self.dub.some))
         THEN Some(Dubious(self.dub.some)) ELSE None, <<>>, <<>>)

invert(self) ==
    R(IF is_some(self.dub) THEN Some(Dubious(self.dub.some)) ELSE None, <<>>, <<>>)

\* validate with a check of the wrapper's own: zero is rejected too.
validate_strict(self) ==
    R(IF self.dub.f = Fin(0) THEN Err("()") ELSE T_validate(self.dub), <<self.dub>>, <<>>)

\* impl Validate<T> for Dubious<T>: self.0.validate()
validate(self) == R(T_validate(self.dub), <<self.dub>>, <<>>)

\* Validate::ok: self.validate().ok()
ok(self) == LET r == validate(self) IN R(Result_ok(r.out), r.vcalls, r.fcalls)

\* err that reports an error for every value.
err_always(self) ==
    LET r == validate(self)
    IN R(IF is_ok(r.out) THEN Some("()") ELSE Some(r.out.err), r.vcalls, r.fcalls)

\* Validate::err: self.validate().err()
err(self) == LET r == validate(self) IN R(Result_err(r.out), r.vcalls, r.fcalls)

\* zip_ok that validates to gate but pairs the original contained values.
zip_ok_originals(self, other) ==
    LET a == ok(self)
        b == ok(other)
    IN R(IF is_some(a.out) /\ is_some(b.out)
            THEN Some(Dubious(Tuple(self.dub, other.dub))) ELSE None,
         a.vcalls \o b.vcalls, <<>>)

\* zip_ok gated on the left side only.
zip_ok_left_gate(self, other) ==
    LET a == ok(self)
        b == ok(other)
    IN R(IF is_some(a.out)
            THEN Some(Dubious(Tuple(a.out.some,
                                    IF is_some(b.out) THEN b.out.some ELSE other.dub)))
            ELSE None,
         a.vcalls \o b.vcalls, <<>>)

\* zip_ok that skips other.ok() once self.ok() is None.
zip_ok_short_circuit(self, other) ==
    LET a == ok(self)
        b == ok(other)
        z == Option_zip(a.out, b.out)
    IN IF is_some(a.out)
          THEN R(IF is_some(z) THEN Some(Dubious(z.some)) ELSE None,
                 a.vcalls \o b.vcalls, <<>>)
          ELSE R(None, a.vcalls, <<>>)

\* self.ok().zip(other.ok()).map(|t| Dubious(t)); both arguments are
\* evaluated, self.ok() first, before Option::zip runs.
zip_ok(self, other) ==
    LET a == ok(self)
        b == ok(other)
        z == Option_zip(a.out, b.out)
    IN R(IF is_some(z) THEN Some(Dubious(z.some)) ELSE None,
         a.vcalls \o b.vcalls, <<>>)

\* impl PartialEq<T> for Dubious<T>: self.0 == *other
Dubious_eq(self, other) == T_eq(self.dub, other)

\* The forwarded operator with its operands the wrong way round.
Dubious_sub_swapped(self, rhs) == R(Dubious(T_sub(rhs.dub, self.dub)), <<>>, <<>>)

\* impl std::ops::Sub<Dubious<U>> for Dubious<T>: Dubious(self.0.sub(rhs.0))
Dubious_sub(self, rhs) == R(Dubious(T_sub(self.dub, rhs.dub)), <<>>, <<>>)

\* ------------------------------------------------------------ the state
\* w          the wrapper the caller's pipeline currently holds
\* raw        the same pipeline computed on bare values, without any wrapper
\* steps      number of operations applied since the last construct
\* count      the counter incremented by every invocation of validation
\* validated  whether the caller has invoked a validation-family operation
\* last       the last call: its name, inputs and what it returned
VARIABLES w, raw, steps, count, validated, last

vars == <<w, raw, steps, count, validated, last>>

IsPlain(x) == "ty" \in DOMAIN x.dub
IsPair(x) == "t0" \in DOMAIN x.dub
IsNested(x) == "dub" \in DOMAIN x.dub

\* Closures the caller passes to map, then, zip_with and validate_with.
SubFns(ty) == {[fn |-> "sub", c |-> [ty |-> ty, f |-> c]] : c \in F64}
ThenFns(ty) == {[fn |-> "then_sub", c |-> [ty |-> ty, f |-> c]] : c \in F64}
PairFns == {[fn |-> "pair_sub"], [fn |-> "fst"], [fn |-> "snd"]}
CheckFns == {[fn |-> "accept"], [fn |-> "reject"], [fn |-> "finite"]}

Call_(op, self, other, f, r) ==
    [op |-> op, self |-> self, other |-> other, f |-> f, r |-> r]

\* What the caller observes when it runs both t.zip(u).map(f) and
\* t.zip_with(u, f) on copies of the same wrappers.
Both(viaZipMap, viaZipWith) ==
    [out |-> viaZipWith.out, vcalls |-> viaZipWith.vcalls, fcalls |-> viaZipWith.fcalls,
     alt |-> viaZipMap]

\* t.zip(u).map(f)
zip_map(self, other, f) ==
    LET z == zip(self, other)
        m == map(z.out, f)
    IN R(m.out, z.vcalls \o m.vcalls, z.fcalls \o m.fcalls)

\* (t.validate(), t.ok(), t.err()) on copies of the same wrapper
outcomes(self) ==
    LET v == validate(self)
        o == ok(self)
        e == err(self)
    IN R([validate |-> v.out, ok |-> o.out, err |-> e.out],
         v.vcalls \o o.vcalls \o e.vcalls, <<>>)

\* A composition step: the pipeline moves to r.out, the counter advances by
\* the validations the call made.
Step(op, self, other, f, r, bare) ==
    /\ steps < MaxSteps
    /\ count + Len(r.vcalls) <= MaxCount
    /\ w' = r.out
    /\ raw' = bare
    /\ steps' = steps + 1
    /\ count' = count + Len(r.vcalls)
    /\ last' = Call_(op, self, other, f, r)
    /\ UNCHANGED validated

\* A call whose result leaves the pipeline: validation family, invert.
Query(op, self, other, f, r, isValidation) ==
    /\ count + Len(r.vcalls) <= MaxCount
    /\ count' = count + Len(r.vcalls)
    /\ validated' = (validated \/ isValidation)
    /\ last' = Call_(op, self, other, f, r)
    /\ UNCHANGED <<w, raw, steps>>

Init ==
    \E v \in TVals :
        /\ w = new(v).out
        /\ raw = v
        /\ steps = 0
        /\ count = 0
        /\ validated = FALSE
        /\ last = Call_("new", None, None, None, new(v))

\* Dubious::new(v)
New ==
    \E v \in TVals :
        LET r == new(v) IN
        /\ count + Len(r.vcalls) <= MaxCount
        /\ w' = r.out
        /\ raw' = v
        /\ steps' = 0
        /\ count' = count + Len(r.vcalls)
        /\ last' = Call_("new", None, None, None, r)
        /\ UNCHANGED validated

\* w.map(|p| p - c)
Map ==
    /\ IsPlain(w)
    /\ \E f \in SubFns(w.dub.ty) :
        /\ Call(f, raw) \in TVals
        /\ Step("map", w, None, f, map(w, f), Call(f, raw))

\* w.then(|p| Dubious::new(p - c))
Then ==
    /\ IsPlain(w)
    /\ \E f \in ThenFns(w.dub.ty) :
        /\ Call(f, raw).dub \in TVals
        /\ Step("then", w, None, f, then(w, f), Call(f, raw).dub)

\* w.zip(Dubious::new(y))
Zip ==
    /\ IsPlain(w)
    /\ \E y \in TVals :
        /\ y.ty = w.dub.ty
        /\ Step("zip", w, new(y).out, None, zip(w, new(y).out), Tuple(raw, y))

\* pair.map(f) on the result of a zip
MapPair ==
    /\ IsPair(w)
    /\ \E f \in PairFns :
        /\ Call(f, raw) \in TVals
        /\ Step("map", w, None, f, map(w, f), Call(f, raw))

\* w.zip_with(Dubious::new(y), f)
ZipWith ==
    /\ IsPlain(w)
    /\ \E y \in TVals, f \in PairFns :
        /\ y.ty = w.dub.ty
        /\ Call(f, Tuple(raw, y)) \in TVals
        /\ Step("zip_with", w, new(y).out, f,
                Both(zip_map(w, new(y).out, f), zip_with(w, new(y).out, f)),
                Call(f, Tuple(raw, y)))

\* Dubious::new(w)
Nest ==
    /\ IsPlain(w)
    /\ Step("nest", w, None, None, new(w), Dubious(raw))

\* nested.flatten()
Flatten ==
    /\ IsNested(w)
    /\ Step("flatten", w, None, None, flatten(w), raw.dub)

\* w - Dubious::new(y), the forwarded std::ops::Sub
SubOp ==
    /\ IsPlain(w)
    /\ \E y \in TVals :
        /\ y.ty = w.dub.ty
        /\ T_sub(raw, y) \in TVals
        /\ Step("sub", w, new(y).out, None, Dubious_sub(w, new(y).out), T_sub(raw, y))

\* w.validate()
Validate ==
    /\ IsPlain(w)
    /\ Query("validate", w, None, None, validate(w), TRUE)

\* w.validate(), w.ok() and w.err() on copies of w
Outcomes ==
    /\ IsPlain(w)
    /\ Query("outcomes", w, None, None, outcomes(w), TRUE)

\* w.validate_with(f)
ValidateWith ==
    /\ IsPlain(w)
    /\ \E f \in CheckFns : Query("validate_with", w, None, f, validate_with(w, f), TRUE)

\* w.zip_ok(Dubious::new(y))
ZipOk ==
    /\ IsPlain(w)
    /\ \E y \in TVals :
        Query("zip_ok", w, new(y).out, None, zip_ok(w, new(y).out), TRUE)

\* Dubious::new(o).invert() for an Option o
Invert ==
    \E o \in {Some(raw), None} :
        LET r == invert(new(o).out) IN
        /\ count + Len(r.vcalls) <= MaxCount
        /\ count' = count + Len(r.vcalls)
        /\ IsPlain(w)
        /\ last' = Call_("invert", new(o).out, None, None, r)
        /\ UNCHANGED <<w, raw, steps, validated>>

Next ==
    \/ New
    \/ Map
    \/ Then
    \/ Zip
    \/ MapPair
    \/ ZipWith
    \/ Nest
    \/ Flatten
    \/ SubOp
    \/ Validate
    \/ Outcomes
    \/ ValidateWith
    \/ ZipOk
    \/ Invert

Spec == Init /\ [][Next]_vars

TypeOK ==
    /\ steps \in 0..MaxSteps
    /\ count \in 0..MaxCount
    /\ validated \in BOOLEAN

\* ------------------------------------------------------------- properties
Composition == {"new", "map", "then", "zip", "zip_with", "nest", "flatten", "sub"}

BothValid == is_ok(T_validate(last.self.dub)) /\ is_ok(T_validate(last.other.dub))

C2_ZipOkGate ==
    last.op = "zip_ok" =>
        /\ is_some(last.r.out) <=> BothValid
        /\ ~BothValid => last.r.out = None

C2_Witness ==
    /\ last.op = "zip_ok"
    /\ is_ok(T_validate(last.self.dub))
    /\ ~is_ok(T_validate(last.other.dub))
    /\ last.r.out = None

\* C3: as long as the caller has used composition operations only, the
\* validation counter is zero, and no composition call validates.
C3_CompositionNeverValidates ==
    /\ ~validated => count = 0
    /\ last.op \in Composition => last.r.vcalls = <<>>

C3_Witness ==
    /\ ~validated
    /\ steps = MaxSteps
    /\ last.op = "flatten"
    /\ ~is_ok(T_validate(w.dub))

\* C4: the wrapper's validate returns what the contained value's validate
\* returns and invokes it exactly once.
C4_ValidateDelegates ==
    last.op = "validate" =>
        /\ last.r.out = T_validate(last.self.dub)
        /\ last.r.vcalls = <<last.self.dub>>

C4_Witness ==
    /\ last.op = "validate"
    /\ last.self = new(Positive(Fin(0))).out
    /\ last.r.out = Ok(Positive(Fin(0)))

OnPositive == IsPlain(w) /\ w.dub.ty = "Positive"

\* What a validation of the bare value x of type Positive must give.
PositiveOutcome(x) == IF f64_ge0(x.f) THEN Ok(x) ELSE Err("()")

C5_Validation ==
    /\ (last.op = "validate" /\ OnPositive) => last.r.out = PositiveOutcome(raw)
    /\ (last.op = "outcomes" /\ OnPositive) =>
        /\ last.r.out.validate = PositiveOutcome(raw)
        /\ last.r.out.ok = Result_ok(PositiveOutcome(raw))
        /\ last.r.out.err = Result_err(PositiveOutcome(raw))

\* C5 (as stated): on the Positive type the wrapper always compares equal to
\* the raw arithmetic result, and a final validation succeeds with the final
\* value iff it is >= 0.
C5_AlwaysEqualsRaw ==
    /\ OnPositive => Dubious_eq(w, raw)
    /\ C5_Validation

\* C5 (amended): on the Positive type the wrapper compares equal to the raw
\* arithmetic result exactly when that result is not NaN, and a final
\* validation succeeds with the final value iff it is >= 0.
C5_EqualsRawUnlessNaN ==
    /\ OnPositive => (Dubious_eq(w, raw) <=> raw.f # NaN)
    /\ C5_Validation

C5_Witness ==
    /\ last.op = "validate"
    /\ OnPositive
    /\ steps = 2
    /\ raw = Positive(Fin(-1))
    /\ Dubious_eq(w, Positive(Fin(-1)))
    /\ last.r.out = Err("()")

\* C6: validate_with invokes f exactly once, on the contained value, returns
\* f's result and never invokes the contained type's validation.
C6_ValidateWithUsesF ==
    last.op = "validate_with" =>
        /\ last.r.fcalls = <<last.self.dub>>
        /\ last.r.out = Call(last.f, last.self.dub)
        /\ last.r.vcalls = <<>>

C6_Witness ==
    /\ last.op = "validate_with"
    /\ last.f.fn = "accept"
    /\ ~is_ok(T_validate(last.self.dub))
    /\ last.r.out = Ok(last.self.dub)

\* C7: ok() is Some(x) exactly when validate() is Ok(x), err() is Some(e)
\* exactly when validate() is Err(e), and exactly one of the two is populated.
C7_OkErrMirrorValidate ==
    last.op = "outcomes" =>
        LET v == last.r.out.validate
            o == last.r.out.ok
            e == last.r.out.err
        IN /\ is_some(o) <=> is_ok(v)
           /\ is_some(o) => o.some = v.ok
           /\ is_some(e) <=> ~is_ok(v)
           /\ is_some(e) => e.some = v.err
           /\ is_some(o) # is_some(e)

C7_Witness ==
    /\ last.op = "outcomes"
    /\ last.r.out.ok = Some(Magnitude(Fin(1)))
    /\ last.r.out.err = None

\* C8: zip followed by map(f) gives what zip_with(f) gives, a wrapper around
\* f((x, y)), with f applied once and no validation.
C8_ZipMapIsZipWith ==
    last.op = "zip_with" =>
        /\ last.r.out = last.r.alt.out
        /\ last.r.out = Dubious(Call(last.f, Tuple(last.self.dub, last.other.dub)))
        /\ Len(last.r.fcalls) = 1
        /\ Len(last.r.alt.fcalls) = 1
        /\ last.r.vcalls = <<>>
        /\ last.r.alt.vcalls = <<>>

C8_Witness ==
    /\ last.op = "zip_with"
    /\ last.f.fn = "pair_sub"
    /\ last.self.dub = Positive(Fin(1))
    /\ last.other.dub = Positive(Fin(2))
    /\ last.r.out = Dubious(Positive(Fin(-1)))

\* C9: invert turns a wrapped Some(v) into Some of the wrapped v and a
\* wrapped None into None, without validating or changing v.
C9_Invert ==
    last.op = "invert" =>
        /\ is_some(last.self.dub) => last.r.out = Some(new(last.self.dub.some).out)
        /\ last.self.dub = None => last.r.out = None
        /\ last.r.vcalls = <<>>

C9_Witness ==
    /\ last.op = "invert"
    /\ last.self = Dubious(Some(Positive(Fin(-1))))
    /\ last.r.out = Some(Dubious(Positive(Fin(-1))))

====
